---- MODULE Spec2Model ----
\* Model of package arp (packet.go): the Packet codec.
\* NewPacket, Packet.MarshalBinary and Packet.UnmarshalBinary are operators
\* over a heap of byte arrays, so that slices which share storage with the
\* caller's arguments are visible; a caller drives them through the actions.
EXTENDS Integers, Sequences, FiniteSets, TLC

VARIABLES heap, p, ret

vars == <<heap, p, ret>>

-----------------------------------------------------------------------------
\* Bounds of the model.

\* Largest hardware/IP length byte enumerated in full in parsed buffers.
MaxLen == 5
\* Largest number of bytes a caller appends after a complete packet.
MaxExtra == 1

\* Width of the uint8 fields and of a byte.
Uint8Mod == 256
\* Minimum hardware address length accepted by NewPacket.
MinHardwareAddrLen == 6
\* net.IPv4len and net.IPv6len.
IPv4len == 4
IPv6len == 16
\* ethernet.EtherTypeIPv4.
EtherTypeIPv4 == 2048

OperationRequest == 1
OperationReply == 2

Min(a, b) == IF a < b THEN a ELSE b

-----------------------------------------------------------------------------
\* Storage: arrays of bytes, and slices (array, offset, length) into them.

ArrIds == {"nil", "srcHW", "srcIP", "dstHW", "dstIP", "b",
           "sha", "spa", "tha", "tpa", "out"}

NilSlice == [arr |-> "nil", off |-> 0, len |-> 0]

\* The slice covering a whole array; an empty array stands for a nil slice.
Whole(h, a) ==
    IF h[a] = <<>> THEN NilSlice ELSE [arr |-> a, off |-> 0, len |-> Len(h[a])]

\* The bytes a slice denotes.
Bytes(h, s) == [i \in 1..s.len |-> h[s.arr][s.off + i]]

EmptyHeap == [a \in ArrIds |-> <<>>]

\* Arrays no longer referenced are released.
Collect(h, keep) == [a \in ArrIds |-> IF a \in keep THEN h[a] ELSE <<>>]

-----------------------------------------------------------------------------
\* type Packet

ZeroPacket ==
    [HardwareType |-> 0, ProtocolType |-> 0, HardwareAddrLength |-> 0,
     IPLength |-> 0, Operation |-> 0,
     SenderHardwareAddr |-> NilSlice, SenderIP |-> NilSlice,
     TargetHardwareAddr |-> NilSlice, TargetIP |-> NilSlice]

\* The nil *Packet returned beside an error.
NilPacket == [nil |-> TRUE]

Refs(q) ==
    IF q = NilPacket THEN {}
    ELSE {q.SenderHardwareAddr.arr, q.SenderIP.arr,
          q.TargetHardwareAddr.arr, q.TargetIP.arr}

\* A Packet with its address fields read through the heap.
PacketValue(h, q) ==
    [HardwareType |-> q.HardwareType, ProtocolType |-> q.ProtocolType,
     HardwareAddrLength |-> q.HardwareAddrLength, IPLength |-> q.IPLength,
     Operation |-> q.Operation,
     SenderHardwareAddr |-> Bytes(h, q.SenderHardwareAddr),
     SenderIP |-> Bytes(h, q.SenderIP),
     TargetHardwareAddr |-> Bytes(h, q.TargetHardwareAddr),
     TargetIP |-> Bytes(h, q.TargetIP)]

ZeroValue == PacketValue(EmptyHeap, ZeroPacket)

-----------------------------------------------------------------------------
\* net.IP.To4, as called by NewPacket.

IsZeros(h, ip, n) == \A i \in 1..n : h[ip.arr][ip.off + i] = 0

To4(h, ip) ==
    IF ip.len = IPv4len THEN ip
    ELSE IF /\ ip.len = IPv6len
            /\ IsZeros(h, ip, 10)
            /\ h[ip.arr][ip.off + 11] = 255
            /\ h[ip.arr][ip.off + 12] = 255
         THEN [arr |-> ip.arr, off |-> ip.off + 12, len |-> 4]
         ELSE NilSlice

-----------------------------------------------------------------------------
\* func NewPacket

NewPacketIPFirst(h, op, srcHW, srcIP, dstHW, dstIP) ==
    LET src4 == To4(h, srcIP)
        dst4 == To4(h, dstIP)
    IN  IF src4 = NilSlice THEN [p |-> NilPacket, err |-> "ErrInvalidIP"]
        ELSE IF dst4 = NilSlice THEN [p |-> NilPacket, err |-> "ErrInvalidIP"]
        ELSE IF srcHW.len < MinHardwareAddrLen
             THEN [p |-> NilPacket, err |-> "ErrInvalidHardwareAddr"]
        ELSE IF dstHW.len < MinHardwareAddrLen
             THEN [p |-> NilPacket, err |-> "ErrInvalidHardwareAddr"]
        ELSE IF srcHW.len # dstHW.len
             THEN [p |-> NilPacket, err |-> "ErrInvalidHardwareAddr"]
        ELSE [p |-> [HardwareType |-> 1,
                     ProtocolType |-> EtherTypeIPv4,
                     HardwareAddrLength |-> srcHW.len % Uint8Mod,
                     IPLength |-> src4.len % Uint8Mod,
                     Operation |-> op,
                     SenderHardwareAddr |-> srcHW,
                     SenderIP |-> src4,
                     TargetHardwareAddr |-> dstHW,
                     TargetIP |-> dst4],
              err |-> "nil"]

NewPacket(h, op, srcHW, srcIP, dstHW, dstIP) ==
    IF srcHW.len < MinHardwareAddrLen
    THEN [p |-> NilPacket, err |-> "ErrInvalidHardwareAddr"]
    ELSE IF dstHW.len < MinHardwareAddrLen
    THEN [p |-> NilPacket, err |-> "ErrInvalidHardwareAddr"]
    ELSE IF srcHW.len # dstHW.len
    THEN [p |-> NilPacket, err |-> "ErrInvalidHardwareAddr"]
    ELSE LET src4 == To4(h, srcIP) IN
         IF src4 = NilSlice THEN [p |-> NilPacket, err |-> "ErrInvalidIP"]
         ELSE LET dst4 == To4(h, dstIP) IN
              IF dst4 = NilSlice THEN [p |-> NilPacket, err |-> "ErrInvalidIP"]
              ELSE [p |-> [HardwareType |-> 1,
                           ProtocolType |-> EtherTypeIPv4,
                           HardwareAddrLength |-> srcHW.len % Uint8Mod,
                           IPLength |-> src4.len % Uint8Mod,
                           Operation |-> op,
                           SenderHardwareAddr |-> srcHW,
                           SenderIP |-> src4,
                           TargetHardwareAddr |-> dstHW,
                           TargetIP |-> dst4],
                    err |-> "nil"]

-----------------------------------------------------------------------------
\* encoding/binary BigEndian, as used by the codec.

PutUint16(v) == <<v \div 256, v % 256>>

Uint16LittleEndian(b, i) == b[i + 2] * 256 + b[i + 1]

\* b is a byte sequence, i a 0-based offset.
Uint16(b, i) == b[i + 1] * 256 + b[i + 2]

-----------------------------------------------------------------------------
\* func (p *Packet) MarshalBinary

\* Length passed to make: the sum is evaluated in uint8.
MarshalLen(q) ==
    (2 + 2 + 1 + 1 + 2 + 4 + 4 + ((q.HardwareAddrLength * 2) % Uint8Mod)) % Uint8Mod

\* Upper bounds of the index and slice expressions, in program order.
MarshalBounds(q) ==
    LET hal == q.HardwareAddrLength
        pl  == q.IPLength
    IN  {2, 4, 5, 6, 8, 8 + hal, 8 + hal + pl, 8 + hal + pl + hal,
         8 + hal + pl + hal + pl}

\* copy(b[n:n+w], src) writes byte i (1-based) of b.
Copied(n, w, src, i) == i > n /\ i <= n + Min(w, Len(src))

MarshalBinary(h, q) ==
    LET v   == PacketValue(h, q)
        len == MarshalLen(q)
        hal == q.HardwareAddrLength
        pl  == q.IPLength
        fixed == PutUint16(q.HardwareType) \o PutUint16(q.ProtocolType)
                 \o <<q.HardwareAddrLength, q.IPLength>>
                 \o PutUint16(q.Operation)
    IN  IF \E hi \in MarshalBounds(q) : hi > len
        THEN [panic |-> TRUE, b |-> <<>>]
        ELSE [panic |-> FALSE,
              b |-> [i \in 1..len |->
                 IF i <= 8 THEN fixed[i]
                 ELSE IF Copied(8, hal, v.SenderHardwareAddr, i)
                      THEN v.SenderHardwareAddr[i - 8]
                 ELSE IF Copied(8 + hal, pl, v.SenderIP, i)
                      THEN v.SenderIP[i - (8 + hal)]
                 ELSE IF Copied(8 + hal + pl, hal, v.TargetHardwareAddr, i)
                      THEN v.TargetHardwareAddr[i - (8 + hal + pl)]
                 ELSE IF Copied(8 + hal + pl + hal, pl, v.TargetIP, i)
                      THEN v.TargetIP[i - (8 + hal + pl + hal)]
                 ELSE 0]]

-----------------------------------------------------------------------------
\* func (p *Packet) UnmarshalBinary

TooShortOffByOne(n, ml, il) == n <= 8 + (2 * ml) + (2 * il)

\* The second length check, on the lengths read from the header.
TooShort(n, ml, il) == n < 8 + (2 * ml) + (2 * il)

\* b is the slice passed in; the result carries the heap with the arrays made.
UnmarshalBinary(h, q, b) ==
    LET in == Bytes(h, b) IN
    IF Len(in) < 8 THEN [err |-> "ErrUnexpectedEOF", p |-> q, heap |-> h]
    ELSE
      LET ml == in[5]
          il == in[6]
          hdr == [q EXCEPT !.HardwareType = Uint16(in, 0),
                           !.ProtocolType = Uint16(in, 2),
                           !.HardwareAddrLength = in[5],
                           !.IPLength = in[6],
                           !.Operation = Uint16(in, 6)]
      IN IF TooShort(Len(in), ml, il)
         THEN [err |-> "ErrUnexpectedEOF", p |-> hdr, heap |-> h]
         ELSE
           LET sha == SubSeq(in, 8 + 1, 8 + ml)
               spa == SubSeq(in, 8 + ml + 1, 8 + ml + il)
               tha == SubSeq(in, 8 + ml + il + 1, 8 + ml + il + ml)
               tpa == SubSeq(in, 8 + ml + il + ml + 1, 8 + ml + il + ml + il)
               h2 == [h EXCEPT !["sha"] = sha, !["spa"] = spa,
                               !["tha"] = tha, !["tpa"] = tpa]
           IN [err |-> "nil",
               p |-> [hdr EXCEPT
                        !.SenderHardwareAddr = [arr |-> "sha", off |-> 0, len |-> ml],
                        !.SenderIP = [arr |-> "spa", off |-> 0, len |-> il],
                        !.TargetHardwareAddr = [arr |-> "tha", off |-> 0, len |-> ml],
                        !.TargetIP = [arr |-> "tpa", off |-> 0, len |-> il]],
               heap |-> h2]

-----------------------------------------------------------------------------
\* The caller: the arguments it passes and the calls it makes.

Ops == {OperationRequest, OperationReply, 43981}

\* Hardware address lengths passed to NewPacket: around the minimum, the
\* first length whose doubled value overflows the buffer size, and the first
\* length that does not fit the uint8 field.
HWLens == {MinHardwareAddrLen - 1, MinHardwareAddrLen, MinHardwareAddrLen + 1,
           (Uint8Mod - 16) \div 2, Uint8Mod}

HWAddr(n, base) == [i \in 1..n |-> (base + i) % 256]

IPKinds == {"v4", "mapped", "v6", "nil"}

IPAddr(kind, last) ==
    CASE kind = "v4"     -> <<192, 168, 1, last>>
      [] kind = "mapped" -> <<0, 0, 0, 0, 0, 0, 0, 0, 0, 0, 255, 255, 192, 168, 1, last>>
      [] kind = "v6"     -> <<32, 1, 13, 184, 0, 0, 0, 0, 0, 0, 0, 0, 0, 0, 0, last>>
      [] OTHER           -> <<>>

\* Fixed-header values (hardware type, protocol type, operation) of buffers.
Headers == {<<0, 0, 0>>, <<1, EtherTypeIPv4, OperationRequest>>, <<65535, 258, 43981>>}

\* Length bytes (H, L) of buffers: all small pairs, and two large ones.
HLPairs == ((0..MaxLen) \X (0..MaxLen)) \cup {<<128, 0>>, <<255, 255>>}

Payload(i) == (i * 7) % 256

\* A complete buffer for the header and lengths, with MaxExtra trailing bytes.
FullInput(hd, hl) ==
    PutUint16(hd[1]) \o PutUint16(hd[2]) \o <<hl[1], hl[2]>> \o PutUint16(hd[3])
    \o [i \in 1..(2 * hl[1] + 2 * hl[2] + MaxExtra) |-> Payload(i)]

Boundary(hl) ==
    LET need == 8 + 2 * hl[1] + 2 * hl[2]
    IN  {7, 8, need - 1, need, need + MaxExtra}

\* Buffer lengths tried for a header on a new Packet.
InputLens(hl) ==
    IF hl[1] <= MaxLen /\ hl[2] <= MaxLen
    THEN 0..(8 + 2 * hl[1] + 2 * hl[2] + MaxExtra)
    ELSE Boundary(hl) \cup {0}

NoCall == [call |-> "none", err |-> "nil", panic |-> FALSE, op |-> 0,
           prev |-> "none", kind |-> "none", k |-> 0,
           dst0 |-> ZeroValue, orig |-> ZeroValue]

Init ==
    /\ heap = EmptyHeap
    /\ p = ZeroPacket
    /\ ret = NoCall

\* p, err := NewPacket(op, srcHW, srcIP, dstHW, dstIP)
\* A caller obtains its Packet once, from NewPacket or from the wire, and
\* then works on that Packet.
CallNewPacket ==
    /\ ret.call = "none"
    /\ \E op \in Ops, sl \in HWLens, dl \in HWLens, sk \in IPKinds, dk \in IPKinds :
         LET h0 == [EmptyHeap EXCEPT !["srcHW"] = HWAddr(sl, 16),
                                     !["dstHW"] = HWAddr(dl, 96),
                                     !["srcIP"] = IPAddr(sk, 1),
                                     !["dstIP"] = IPAddr(dk, 2)]
             r == NewPacket(h0, op, Whole(h0, "srcHW"), Whole(h0, "srcIP"),
                            Whole(h0, "dstHW"), Whole(h0, "dstIP"))
         IN  /\ heap' = h0
             /\ p' = r.p
             /\ ret' = [NoCall EXCEPT !.call = "NewPacket", !.err = r.err,
                                      !.op = op, !.prev = ret.call]

\* b, _ := p.MarshalBinary()
CallMarshalBinary ==
    /\ p # NilPacket
    /\ LET r == MarshalBinary(heap, p)
       IN  /\ heap' = Collect([heap EXCEPT !["out"] = r.b],
                              Refs(p) \cup {"out"})
           /\ p' = p
           /\ ret' = [NoCall EXCEPT !.call = "MarshalBinary",
                                    !.panic = r.panic, !.op = ret.op,
                                    !.prev = ret.call,
                                    !.orig = PacketValue(heap, p)]

\* err := dst.UnmarshalBinary(in) for a buffer in held by the caller.
DoUnmarshal(dst, in, kind, k, orig) ==
    LET h1 == [heap EXCEPT !["b"] = in]
        r  == UnmarshalBinary(h1, dst, [arr |-> "b", off |-> 0, len |-> Len(in)])
        held == IF kind = "output" THEN {"b", "out"} ELSE {"b"}
    IN  /\ heap' = Collect(r.heap, Refs(r.p) \cup held)
        /\ p' = r.p
        /\ ret' = [NoCall EXCEPT !.call = "UnmarshalBinary", !.err = r.err,
                                 !.prev = ret.call, !.kind = kind, !.k = k,
                                 !.dst0 = PacketValue(heap, dst),
                                 !.orig = orig]

\* A buffer from the wire, parsed into a new Packet.
UnmarshalInput ==
    /\ ret.call = "none"
    /\ \E hd \in Headers, hl \in HLPairs :
         \E n \in InputLens(hl) :
           DoUnmarshal(ZeroPacket, SubSeq(FullInput(hd, hl), 1, n), "input", n,
                       ZeroValue)

\* Length bytes of the buffers parsed into a Packet that is already populated.
AgainPairs == {0, MaxLen} \X {0, MaxLen}

\* A buffer from the wire, parsed into the Packet p already holds: the next
\* call after the one that populated p.
UnmarshalAgain ==
    /\ p # NilPacket
    /\ ret.call \in {"NewPacket", "UnmarshalBinary"}
    /\ ret.kind # "again"
    /\ \E hd \in {<<65535, 258, 43981>>}, hl \in AgainPairs :
         \E n \in Boundary(hl) \ {8 + 2 * hl[1] + 2 * hl[2] + MaxExtra} :
           DoUnmarshal(p, SubSeq(FullInput(hd, hl), 1, n), "again", n,
                       ZeroValue)

\* The buffer MarshalBinary just returned, cut to k bytes or followed by
\* extra bytes, parsed into a new Packet.
UnmarshalOutput ==
    /\ ret.call = "MarshalBinary"
    /\ ~ret.panic
    /\ \E k \in 0..(Len(heap["out"]) + MaxExtra) :
         LET out == heap["out"]
             in  == IF k <= Len(out) THEN SubSeq(out, 1, k)
                    ELSE out \o [i \in 1..(k - Len(out)) |-> 255]
         IN  DoUnmarshal(ZeroPacket, in, "output", k, ret.orig)

\* The arrays the caller passed to, or got back from, the last call.
CallerArrays ==
    CASE ret.call = "NewPacket"       -> {"srcHW", "srcIP", "dstHW", "dstIP"}
      [] ret.call = "UnmarshalBinary" -> {"b"}
      [] ret.call = "MarshalBinary"   -> {"out"}
      [] OTHER                        -> {}

\* The caller overwrites a byte of one of those arrays.
Mutate ==
    /\ p # NilPacket
    /\ \E a \in CallerArrays :
         /\ heap[a] # <<>>
         /\ \E i \in {1, Len(heap[a])} :
              heap' = [heap EXCEPT ![a][i] = 255 - @]
    /\ p' = p
    /\ ret' = [NoCall EXCEPT !.call = "Mutate", !.prev = ret.call,
                             !.dst0 = PacketValue(heap, p)]

Next ==
    \/ CallNewPacket
    \/ CallMarshalBinary
    \/ UnmarshalInput
    \/ UnmarshalAgain
    \/ UnmarshalOutput
    \/ Mutate

Spec == Init /\ [][Next]_vars

-----------------------------------------------------------------------------
\* Properties.

\* The data-model invariants on a Packet read through the heap.
WellFormed(v) ==
    /\ Len(v.SenderHardwareAddr) = v.HardwareAddrLength
    /\ Len(v.TargetHardwareAddr) = v.HardwareAddrLength
    /\ Len(v.SenderIP) = v.IPLength
    /\ Len(v.TargetIP) = v.IPLength

Marshalled == ret.call = "MarshalBinary"
Unmarshalled == ret.call = "UnmarshalBinary"
Constructed == ret.call = "NewPacket"

\* Length the wire format requires for the length bytes of buffer b.
Need(b) == 8 + 2 * b[5] + 2 * b[6]

\* C1: round trip. For every well-formed Packet MarshalBinary completes, and
\* UnmarshalBinary of its output succeeds and yields an equal Packet.
C1_RoundTrip ==
    /\ (Marshalled /\ WellFormed(ret.orig)) => ~ret.panic
    /\ (/\ Unmarshalled
        /\ ret.kind = "output"
        /\ ret.k = Len(heap["out"])
        /\ WellFormed(ret.orig))
       => (ret.err = "nil" /\ PacketValue(heap, p) = ret.orig)

\* C2: length determinism. For every well-formed Packet MarshalBinary returns
\* a buffer of exactly 8 + 2*H + 2*L bytes, with no wrap-around.
C2_LengthDeterminism ==
    (Marshalled /\ WellFormed(ret.orig))
    => /\ ~ret.panic
       /\ Len(heap["out"]) =
            8 + 2 * ret.orig.HardwareAddrLength + 2 * ret.orig.IPLength

\* C3: truncation rejection. UnmarshalBinary of any proper prefix of the
\* output of MarshalBinary for a well-formed Packet fails with UnexpectedEOF.
C3_TruncationRejected ==
    (/\ Unmarshalled
     /\ ret.kind = "output"
     /\ WellFormed(ret.orig)
     /\ ret.k < Len(heap["out"]))
    => ret.err = "ErrUnexpectedEOF"

\* C4: UnmarshalBinary fails with UnexpectedEOF exactly when the buffer is
\* shorter than 8 bytes or shorter than 8 + 2*b[4] + 2*b[5]; otherwise it
\* succeeds, and it produces no other error.
C4_EOFExactly ==
    Unmarshalled =>
      LET b == heap["b"]
      IN  /\ ret.err \in {"nil", "ErrUnexpectedEOF"}
          /\ ret.err = "ErrUnexpectedEOF"
               <=> (Len(b) < 8 \/ (Len(b) >= 8 /\ Len(b) < Need(b)))

\* A buffer one byte short of the length its header declares (H = 128, so
\* that the required length does not fit in 8 bits) has been rejected.
C4_Witness ==
    /\ Unmarshalled
    /\ Len(heap["b"]) >= 8
    /\ heap["b"][5] = 128
    /\ Len(heap["b"]) = Need(heap["b"]) - 1
    /\ ret.err = "ErrUnexpectedEOF"

\* C5: on success every field is read from its place in the buffer,
\* big-endian; bytes after the packet are ignored; 8 zero bytes give empty
\* address fields.
C5_FieldsFromBuffer ==
    (Unmarshalled /\ ret.err = "nil") =>
      LET b == heap["b"]
          H == b[5]
          L == b[6]
          v == PacketValue(heap, p)
          cut == [heap EXCEPT !["b"] = SubSeq(b, 1, Need(b))]
          r == UnmarshalBinary(cut, ZeroPacket, Whole(cut, "b"))
      IN  /\ v.HardwareType = b[1] * 256 + b[2]
          /\ v.ProtocolType = b[3] * 256 + b[4]
          /\ v.HardwareAddrLength = H
          /\ v.IPLength = L
          /\ v.Operation = b[7] * 256 + b[8]
          /\ v.SenderHardwareAddr = SubSeq(b, 9, 8 + H)
          /\ v.SenderIP = SubSeq(b, 9 + H, 8 + H + L)
          /\ v.TargetHardwareAddr = SubSeq(b, 9 + H + L, 8 + 2 * H + L)
          /\ v.TargetIP = SubSeq(b, 9 + 2 * H + L, 8 + 2 * H + 2 * L)
          /\ r.err = "nil"
          /\ PacketValue(r.heap, r.p) = v
          /\ b = <<0, 0, 0, 0, 0, 0, 0, 0>>
               => /\ v.SenderHardwareAddr = <<>> /\ v.SenderIP = <<>>
                  /\ v.TargetHardwareAddr = <<>> /\ v.TargetIP = <<>>

\* A buffer with non-empty addresses, distinct header bytes and a trailing
\* byte has been parsed.
C5_Witness ==
    /\ Unmarshalled
    /\ ret.err = "nil"
    /\ Len(heap["b"]) > Need(heap["b"])
    /\ heap["b"][5] > 0
    /\ heap["b"][6] > 0
    /\ p.HardwareType = 65535
    /\ p.ProtocolType = 258

\* An IP argument that reduces to a 4-byte IPv4 form.
IsIPv4Form(ip) ==
    \/ Len(ip) = 4
    \/ /\ Len(ip) = 16
       /\ \A i \in 1..10 : ip[i] = 0
       /\ ip[11] = 255 /\ ip[12] = 255

HardwareAddrViolation ==
    \/ Len(heap["srcHW"]) < 6
    \/ Len(heap["dstHW"]) < 6
    \/ Len(heap["srcHW"]) # Len(heap["dstHW"])

IPViolation == ~IsIPv4Form(heap["srcIP"]) \/ ~IsIPv4Form(heap["dstIP"])

C7_ConstructedInvariants ==
    (Constructed /\ ret.err = "nil") =>
      LET v == PacketValue(heap, p)
      IN  /\ v.HardwareAddrLength = Len(heap["srcHW"])
          /\ WellFormed(v)
          /\ v.IPLength = 4
          /\ v.HardwareType = 1
          /\ v.ProtocolType = 2048
          /\ v.Operation = ret.op

\* The last four bytes of an IP argument: its IPv4 form.
Last4(ip) == SubSeq(ip, Len(ip) - 3, Len(ip))

\* C8: for a Packet built by NewPacket with H = len(srcHW), MarshalBinary is
\* 00 01 08 00 H 04 op srcHW srcIP4 dstHW dstIP4, of 16 + 2*H bytes.
C8_ConstructedLayout ==
    (Marshalled /\ ret.prev = "NewPacket") =>
      /\ ~ret.panic
      /\ heap["out"] =
           <<0, 1, 8, 0, Len(heap["srcHW"]), 4, ret.op \div 256, ret.op % 256>>
           \o heap["srcHW"] \o Last4(heap["srcIP"])
           \o heap["dstHW"] \o Last4(heap["dstIP"])
      /\ Len(heap["out"]) = 16 + 2 * Len(heap["srcHW"])

\* C9: an UnmarshalBinary call that fails with UnexpectedEOF leaves every
\* field of the destination Packet as it was before the call.
C9_NoPartialPacket ==
    (Unmarshalled /\ ret.err = "ErrUnexpectedEOF")
    => PacketValue(heap, p) = ret.dst0

\* C10: after a call returns, a modification of the caller's hardware-address,
\* IP or buffer arguments leaves every field of the Packet unchanged.
C10_IndependentStorage ==
    ret.call = "Mutate" => PacketValue(heap, p) = ret.dst0

====
